---- MODULE Spec2Model ----
(***************************************************************************)
(* LTA DataMall MCP server: the /mcp session manager of src/http-server.ts *)
(* (the earlier HTTP server kept in src/firebase-analytics.ts, lines       *)
(* 186-465, has the same /mcp handler without the request tracking), its   *)
(* credential resolution, the CallTool handlers of the HTTP and the stdio  *)
(* entry points, the analytics aggregator with its routes, import and      *)
(* saves, and the stdio entry point's createServer.                        *)
(***************************************************************************)
EXTENDS Integers, Sequences, FiniteSets, TLC

\* ---------------------------------------------------------------- bounds
\* Number of distinct values crypto.randomUUID() can return in the model.
NumIds == 2
\* Most Server/transport pairs the /mcp handler constructs in one run.
MaxChannels == 2
\* Most HTTP requests handled in one run (caps analytics.totalRequests).
MaxRequests == 3
\* Largest tool-call counter an import may build up (caps totalToolCalls
\* and the values of toolCalls).
MaxToolCalls == 1
\* Most remote writes (analyticsRef.set) in flight at once.
MaxPendingWrites == 1
\* Most tool calls recorded in a run of the rolling-history check.
MaxRecorded == 103
\* Process starts in one behaviour.
MaxStarts == 3

\* ------------------------------------------------------------ JS values
\* JavaScript's undefined (an absent header, query parameter or env var).
Undefined == "undefined"
\* `x || y`, `if (x)`: undefined and the empty string are falsy.
Truthy(v) == v \notin {Undefined, ""}

\* Session ids: 1..NumIds are the UUID strings; 0 is an absent
\* mcp-session-id header / a transport whose sessionId is still undefined.
NoSessionId == 0
SessionIds == 1..NumIds
HeaderValues == SessionIds \cup {NoSessionId}

Methods == {"GET", "POST", "DELETE"}
\* JSON-RPC bodies of a POST: an initialize request, or a follow-up.
Bodies == {"initialize", "tools/call"}
\* ?apiKey= values: absent, empty, a user key.
QueryValues == {Undefined, "", "U"}
\* process.env.LTA_API_KEY: unset, empty, a server key.
EnvValues == {Undefined, "", "D"}
ClientIps == {"10.0.0.1"}
UserAgents == {"mcp-client"}
Hours == {"2025-01-01T00"}

\* ------------------------------------------------------------ tools/call inputs
\* The names the CallTool switch has a case for.
Tools ==
  { "bus_arrival", "station_crowding", "train_alerts", "carpark_availability",
    "travel_times", "traffic_incidents", "station_crowd_forecast" }
\* request.params.name: a registered name, or one the switch has no case for.
ToolNames == Tools \cup {"bus_routes"}
\* The enum of trainLine in the ListTools inputSchema.
TrainLines ==
  { "CCL", "CEL", "CGL", "DTL", "EWL", "NEL", "NSL", "BPL", "SLRT", "PLRT", "TEL" }

\* request.params.arguments: absent (undefined), or an object of properties.
NoArguments == [ defined |-> FALSE, props |-> [k \in {} |-> ""] ]
Arguments(props) == [ defined |-> TRUE, props |-> props ]
ArgumentValues ==
  { NoArguments,
    Arguments([k \in {} |-> ""]),
    Arguments([k \in {"busStopCode"} |-> "83139"]),
    Arguments([k \in {"trainLine"} |-> "CCL"]),
    Arguments([k \in {"trainLine"} |-> "ZZZ"]) }

\* What axios.get meets: a response (status, parsed body as a flat object:
\* a sequence of <<key, value>>), or no response at all; message is the
\* AxiosError's own message when the call fails.
NoResponse == [ response |-> FALSE, status |-> 0, data |-> <<>>, message |-> "" ]
Responses ==
  { [ response |-> TRUE, status |-> 200,
      data |-> << <<"BusStopCode", "83139">> >>, message |-> "" ],
    [ response |-> TRUE, status |-> 401,
      data |-> << <<"Message", "Invalid AccountKey">> >>,
      message |-> "Request failed with status code 401" ],
    [ response |-> TRUE, status |-> 500,
      data |-> <<>>, message |-> "Request failed with status code 500" ],
    [ response |-> FALSE, status |-> 0,
      data |-> <<>>, message |-> "getaddrinfo ENOTFOUND datamall2.mytransport.sg" ] }

\* One tools/call: the name, the arguments and what the upstream will do.
NoInvocation == [ name |-> "none", args |-> NoArguments, resp |-> NoResponse ]
\* The arguments a client sends to a tool: none, an empty object, or the
\* property the tool's inputSchema declares (a trainLine of the enum or not).
ArgumentsOf(name) ==
  { a \in ArgumentValues :
      DOMAIN a.props \subseteq
        (CASE name = "bus_arrival" -> {"busStopCode"}
           [] name \in {"station_crowding", "station_crowd_forecast"} -> {"trainLine"}
           [] OTHER -> {}) }
Invocations ==
  { i \in [ name : ToolNames, args : ArgumentValues, resp : Responses ] :
      i.args \in ArgumentsOf(i.name) }
\* The invocation the session behaviours are explored with.
ProbeInvocations ==
  { i \in Invocations :
      i.name = "train_alerts" /\ i.args = Arguments([k \in {} |-> ""])
      /\ i.resp.status = 200 }

VARIABLES
  startTime,    \* the time this process started (the count of process starts)
  program,      \* which entry point this process runs: "http" or "stdio"
  LTA_API_KEY,  \* process.env.LTA_API_KEY, fixed at process start
  analytics,    \* the analytics object of http-server.ts
  transports,   \* Map<string, StreamableHTTPServerTransport>: id -> channel index
  channels,     \* every transport the /mcp handler constructed, in order
  servers,      \* number of `new Server` executed by the /mcp handler
  upstream,     \* AccountKey header values sent to the LTA API so far
  stdio,        \* the stdio entry point: createServer()'s outcome
  file,         \* ANALYTICS_FILE on disk: the snapshot last written, if any
  firebase,     \* firebaseEnabled, the writes in flight, the stored document
  last          \* the last operation: its inputs and its response

vars == <<startTime, program, LTA_API_KEY, file, firebase, analytics, transports, channels, servers, upstream, stdio, last>>

\* ------------------------------------------------------------ JS Map / objects
EmptyMap == [k \in {} |-> 0]
MapSet(m, k, v) == [x \in DOMAIN m \cup {k} |-> IF x = k THEN v ELSE m[x]]
MapDelete(m, k) == [x \in DOMAIN m \ {k} |-> m[x]]
\* obj[k] = (obj[k] || 0) + 1
Inc(m, k) == MapSet(m, k, (IF k \in DOMAIN m THEN m[k] ELSE 0) + 1)

\* ------------------------------------------------------------ credential
DEFAULT_LTA_API_KEY == IF Truthy(LTA_API_KEY) THEN LTA_API_KEY ELSE ""

getApiKey_DefaultFirst(userKey) ==
  IF Truthy(DEFAULT_LTA_API_KEY) THEN DEFAULT_LTA_API_KEY ELSE userKey
getApiKey(userKey) ==
  IF Truthy(userKey) THEN userKey ELSE DEFAULT_LTA_API_KEY

missingApiKey_UndefinedOnly(ltaApiKey) == ltaApiKey = Undefined
missingApiKey(ltaApiKey) == ~Truthy(ltaApiKey)

\* ------------------------------------------------------------ analytics
InitAnalytics ==
  [ serverStartTime |-> 1, totalRequests |-> 0, totalToolCalls |-> 0,
    requestsByMethod |-> EmptyMap, requestsByEndpoint |-> EmptyMap,
    toolCalls |-> EmptyMap, recentToolCalls |-> <<>>,
    clientsByIp |-> EmptyMap, clientsByUserAgent |-> EmptyMap,
    hourlyRequests |-> EmptyMap ]

trackRequest(a, method, endpoint, clientIp, userAgent, hour) ==
  [ a EXCEPT !.totalRequests = @ + 1,
             !.requestsByMethod = Inc(@, method),
             !.requestsByEndpoint = Inc(@, endpoint),
             !.clientsByIp = Inc(@, clientIp),
             !.clientsByUserAgent = Inc(@, userAgent),
             !.hourlyRequests = Inc(@, hour) ]

MAX_RECENT_CALLS == 100

\* trackToolCall(toolName, req): the counters, then unshift and pop.
trackToolCall_Shift(a, toolName, clientIp, userAgent, timestamp) ==
  LET toolCall == [ tool |-> toolName, timestamp |-> timestamp,
                    clientIp |-> clientIp, userAgent |-> userAgent ]
      unshifted == <<toolCall>> \o a.recentToolCalls
  IN [ a EXCEPT !.totalToolCalls = @ + 1,
                !.toolCalls = Inc(@, toolName),
                !.recentToolCalls =
                   IF Len(unshifted) > MAX_RECENT_CALLS
                   THEN Tail(unshifted) ELSE unshifted ]
\* trackToolCall_NoPop: as trackToolCall, without the pop.
trackToolCall_NoPop(a, toolName, clientIp, userAgent, timestamp) ==
  LET toolCall == [ tool |-> toolName, timestamp |-> timestamp,
                    clientIp |-> clientIp, userAgent |-> userAgent ]
  IN [ a EXCEPT !.totalToolCalls = @ + 1,
                !.toolCalls = Inc(@, toolName),
                !.recentToolCalls = <<toolCall>> \o @ ]
trackToolCall(a, toolName, clientIp, userAgent, timestamp) ==
  LET toolCall == [ tool |-> toolName, timestamp |-> timestamp,
                    clientIp |-> clientIp, userAgent |-> userAgent ]
      unshifted == <<toolCall>> \o a.recentToolCalls
  IN [ a EXCEPT !.totalToolCalls = @ + 1,
                !.toolCalls = Inc(@, toolName),
                !.recentToolCalls =
                   IF Len(unshifted) > MAX_RECENT_CALLS
                   THEN SubSeq(unshifted, 1, Len(unshifted) - 1) ELSE unshifted ]

\* ------------------------------------------------------------ persistence
\* A stored snapshot: none, or the analytics object that was written.
NoSnapshot == [ exists |-> FALSE, data |-> InitAnalytics ]
Snapshot(a) == [ exists |-> TRUE, data |-> a ]

\* sanitizeKey: . $ # [ ] / are replaced, character by character.
\* sanitizeChar_NoSlash: as sanitizeChar, without the replace of "/".
sanitizeChar_NoSlash(c) ==
  CASE c = "." -> "_dot_"
    [] c = "$" -> "_dollar_"
    [] c = "#" -> "_hash_"
    [] c = "[" -> "_lb_"
    [] c = "]" -> "_rb_"
    [] OTHER -> c
sanitizeChar(c) ==
  CASE c = "." -> "_dot_"
    [] c = "$" -> "_dollar_"
    [] c = "#" -> "_hash_"
    [] c = "[" -> "_lb_"
    [] c = "]" -> "_rb_"
    [] c = "/" -> "_slash_"
    [] OTHER -> c
RECURSIVE sanitizeKey(_)
sanitizeKey(key) ==
  IF Len(key) = 0 THEN ""
  ELSE sanitizeChar(SubSeq(key, 1, 1)) \o sanitizeKey(SubSeq(key, 2, Len(key)))

\* sanitizeObjectKeys of a map of counts.
sanitizeObjectKeys(obj) ==
  [ k \in { sanitizeKey(x) : x \in DOMAIN obj } |->
      obj[CHOOSE x \in DOMAIN obj : sanitizeKey(x) = k] ]

\* The document saveToFirebase hands to analyticsRef.set.
sanitizedData(a) ==
  [ a EXCEPT !.requestsByMethod = sanitizeObjectKeys(@),
             !.requestsByEndpoint = sanitizeObjectKeys(@),
             !.toolCalls = sanitizeObjectKeys(@),
             !.clientsByIp = sanitizeObjectKeys(@),
             !.clientsByUserAgent = sanitizeObjectKeys(@),
             !.hourlyRequests = sanitizeObjectKeys(@) ]

\* saveToFirebase: nothing when Firebase is not enabled, else one
\* analyticsRef.set of the sanitized snapshot is started.
saveToFirebase(fb, a) ==
  IF ~fb.enabled THEN fb
  ELSE [ fb EXCEPT !.pending = Append(@, Snapshot(sanitizedData(a))) ]

\* saveAnalytics_Rethrow: as saveAnalytics, without its try/catch.
saveAnalytics_Rethrow(f, fb, a, fsOk) ==
  IF fsOk
  THEN [ file |-> Snapshot(a), firebase |-> saveToFirebase(fb, a), threw |-> FALSE ]
  ELSE [ file |-> f, firebase |-> fb, threw |-> TRUE ]

\* saveAnalytics: the local write, then the remote save, which is started
\* and not awaited; an exception of ensureDataDir or writeFileSync (fsOk
\* false) is caught and logged, and skips the rest of the try block.
saveAnalytics(f, fb, a, fsOk) ==
  IF fsOk
  THEN [ file |-> Snapshot(a), firebase |-> saveToFirebase(fb, a), threw |-> FALSE ]
  ELSE [ file |-> f, firebase |-> fb, threw |-> FALSE ]

\* ------------------------------------------------------------ stored documents
\* A JSON value of a stored document: its JS type and its content.
JSValue(type, num, str, obj, arr) ==
  [ type |-> type, num |-> num, str |-> str, obj |-> obj, arr |-> arr ]
JSUndefined == JSValue("undefined", 0, "", EmptyMap, <<>>)
JSNull == JSValue("null", 0, "", EmptyMap, <<>>)
JSNumber(n) == JSValue("number", n, "", EmptyMap, <<>>)
JSString(str) == JSValue("string", 0, str, EmptyMap, <<>>)
JSObject(obj) == JSValue("object", 0, "", obj, <<>>)
JSArray(arr) == JSValue("array", 0, "", EmptyMap, arr)
\* new Date(t).toISOString()
JSDate(t) == JSValue("string", t, "ISO", EmptyMap, <<>>)

\* The left operand of `x || d` is kept when it is truthy.
JSTruthy(v) ==
  CASE v.type \in {"undefined", "null"} -> FALSE
    [] v.type = "number" -> v.num # 0
    [] v.type = "string" -> v.str # ""
    [] OTHER -> TRUE

AnalyticsFields == DOMAIN InitAnalytics

\* The analytics object as the document JSON.stringify writes and
\* JSON.parse (or snapshot.val()) reads back.
toJS(a) ==
  [ f \in AnalyticsFields |->
      CASE f = "serverStartTime" -> JSDate(a[f])
        [] f \in {"totalRequests", "totalToolCalls"} -> JSNumber(a[f])
        [] f = "recentToolCalls" -> JSArray(a[f])
        [] OTHER -> JSObject(a[f]) ]

\* The analytics object a document of well-typed fields is.
fromJS(doc) ==
  [ f \in AnalyticsFields |->
      CASE f \in {"serverStartTime", "totalRequests", "totalToolCalls"} -> doc[f].num
        [] f = "recentToolCalls" -> doc[f].arr
        [] OTHER -> doc[f].obj ]

\* What a read of a store returns: nothing, the JSON null, or an object.
NoDocument == [ exists |-> FALSE, isNull |-> FALSE, fields |-> EmptyMap ]
Parsed(snapshot) ==
  [ exists |-> snapshot.exists, isNull |-> FALSE, fields |-> toJS(snapshot.data) ]

\* ensureAnalyticsStructure: each field is `data.field || default`.
ensureAnalyticsStructure(data, now) ==
  [ f \in AnalyticsFields |->
      IF JSTruthy(data[f]) THEN data[f]
      ELSE toJS([InitAnalytics EXCEPT !.serverStartTime = now])[f] ]

\* loadFromFirebase: null when Firebase is not enabled, when the read
\* fails (caught) or when there is no data, else snapshot.val().
loadFromFirebase(fb, remoteOk) ==
  IF fb.enabled /\ remoteOk THEN fb.doc ELSE NoSnapshot

\* loadAnalytics_NoFallback: as loadAnalytics, without the local file.
loadAnalytics_NoFallback(a, firebaseData, local, localOk, now) ==
  IF firebaseData.exists /\ ~firebaseData.isNull
  THEN [ analytics |-> ensureAnalyticsStructure(firebaseData.fields, now),
         source |-> "firebase" ]
  ELSE [ analytics |-> toJS(a), source |-> "fresh" ]

\* loadAnalytics: the Firebase data when it is truthy, else the local
\* file when it exists; an exception (ensureDataDir, readFileSync,
\* JSON.parse: localOk false; a field read of null) is caught and logged
\* and leaves the analytics object as it is.
loadAnalytics(a, firebaseData, local, localOk, now) ==
  IF firebaseData.exists /\ ~firebaseData.isNull
  THEN [ analytics |-> ensureAnalyticsStructure(firebaseData.fields, now),
         source |-> "firebase" ]
  ELSE IF ~localOk \/ (local.exists /\ local.isNull)
  THEN [ analytics |-> toJS(a), source |-> "caught" ]
  ELSE IF local.exists
  THEN [ analytics |-> ensureAnalyticsStructure(local.fields, now),
         source |-> "file" ]
  ELSE [ analytics |-> toJS(a), source |-> "fresh" ]

\* ------------------------------------------------------------ import
\* analytics.m[k] = (analytics.m[k] || 0) + count, for each entry of the delta.
MergeCounts_Replace(m, d) == d

MergeCounts(m, d) ==
  [ k \in DOMAIN m \cup DOMAIN d |->
      (IF k \in DOMAIN m THEN m[k] ELSE 0) + (IF k \in DOMAIN d THEN d[k] ELSE 0) ]

\* req.body of POST /analytics/import: a JSON object, here a function from
\* the fields it carries to their values; a field it lacks is undefined.
Has(obj, field) == field \in DOMAIN obj

ImportBodies ==
  { EmptyMap,
    [ totalRequests |-> 1, requestsByMethod |-> [k \in {"POST"} |-> 1] ],
    [ totalToolCalls |-> 1, toolCalls |-> [k \in {"bus_arrival"} |-> 1] ],
    [ requestsByEndpoint |-> [k \in {"/mcp"} |-> 1] ] }

\* The four `if (importData.x)` blocks of the handler, in order; a field
\* that is undefined or 0 is falsy, an object is truthy.
importAnalytics(a, importData) ==
  [ a EXCEPT
      !.totalRequests =
          IF Has(importData, "totalRequests") /\ importData.totalRequests # 0
          THEN @ + importData.totalRequests ELSE @,
      !.totalToolCalls =
          IF Has(importData, "totalToolCalls") /\ importData.totalToolCalls # 0
          THEN @ + importData.totalToolCalls ELSE @,
      !.toolCalls =
          IF Has(importData, "toolCalls")
          THEN MergeCounts(@, importData.toolCalls) ELSE @,
      !.requestsByMethod =
          IF Has(importData, "requestsByMethod")
          THEN MergeCounts(@, importData.requestsByMethod) ELSE @ ]

\* The body of GET /analytics: { ...analytics, uptime, firebase }.
analyticsJSON(a, fb) ==
  [ f \in DOMAIN a \cup {"uptime", "firebase"} |->
      IF f \in DOMAIN a THEN a[f]
      ELSE IF f = "uptime" THEN "0d 0h 0m"
      ELSE [ enabled |-> fb.enabled ] ]

\* ------------------------------------------------------------ session map
\* if (sessionId && transports.has(sessionId))
hasSession(m, sessionId) == sessionId # NoSessionId /\ sessionId \in DOMAIN m

\* else if (req.method === 'GET' || req.method === 'DELETE')
requiresSession_GetOnly(method) == method = "GET"
requiresSession(method) == method \in {"GET", "DELETE"}

getTransport_Newest(m, sessionId) == Len(channels)
getTransport(m, sessionId) == m[sessionId]

\* onsessioninitialized: (id) => { transports.set(id, transport) }
onsessioninitialized_Clear(m, id, t) == MapSet(EmptyMap, id, t)
onsessioninitialized(m, id, t) == MapSet(m, id, t)

\* transport.onclose = () => { if (sessionId) transports.delete(sessionId) }
\* where sessionId is the mcp-session-id header of the request that
\* constructed the transport (the handler's const, captured by the closure).
onclose(m, reqSessionId) ==
  IF reqSessionId # NoSessionId THEN MapDelete(m, reqSessionId) ELSE m

\* A transport as the handler constructs it: not initialized, open, with
\* no tool invocation waiting for the LTA API.
NewChannel(reqSessionId, ltaApiKey) ==
  [ sessionId |-> NoSessionId, reqSessionId |-> reqSessionId,
    ltaApiKey |-> ltaApiKey, closed |-> FALSE, inflight |-> 0 ]

\* ------------------------------------------------------------ transport
\* StreamableHTTPServerTransport.validateSession
validateSession(tr, hdr) ==
  IF tr.sessionId = NoSessionId THEN "NotInitialized"
  ELSE IF hdr = NoSessionId THEN "SessionIdRequired"
  ELSE IF hdr # tr.sessionId THEN "SessionNotFound"
  ELSE "none"

StatusOf(error) ==
  CASE error = "none" -> 200
    [] error = "ConfigurationError" -> 500
    [] error = "SessionNotFound" -> 404
    [] error = "MethodNotAllowed" -> 405
    [] OTHER -> 400

\* transport.close(): the channel is released and onclose runs; closing a
\* closed transport does the same again and does not throw.
closeTransport_ThrowsIfClosed(ch, m, t) ==
  IF ch[t].closed
  THEN [ channels |-> ch, transports |-> m, error |-> "AlreadyClosed" ]
  ELSE [ channels |-> [ch EXCEPT ![t].closed = TRUE],
         transports |-> onclose(m, ch[t].reqSessionId), error |-> "none" ]
closeTransport(ch, m, t) ==
  [ channels |-> [ch EXCEPT ![t].closed = TRUE],
    transports |-> onclose(m, ch[t].reqSessionId), error |-> "none" ]

\* transport.handleRequest(req, res, req.body) on channel t; id is what
\* sessionIdGenerator returns if it is called.
handleRequest(ch, m, t, method, hdr, body, id) ==
  LET same(error) == [ channels |-> ch, transports |-> m, error |-> error,
                       sid |-> NoSessionId, call |-> FALSE ]
      v == validateSession(ch[t], hdr)
  IN CASE method = "POST" /\ body = "initialize" ->
            IF ch[t].sessionId # NoSessionId THEN same("AlreadyInitialized")
            ELSE [ channels |-> [ch EXCEPT ![t].sessionId = id],
                   transports |-> onsessioninitialized(m, id, t),
                   error |-> "none", sid |-> id, call |-> FALSE ]
       [] method = "POST" /\ body # "initialize" ->
            IF v # "none" THEN same(v)
            ELSE [ same("none") EXCEPT !.call = (body = "tools/call") ]
       [] method = "GET" -> same(v)
       [] method = "DELETE" ->
            IF v # "none" THEN same(v)
            ELSE LET c == closeTransport(ch, m, t)
                 IN [ channels |-> c.channels, transports |-> c.transports,
                      error |-> c.error, sid |-> NoSessionId, call |-> FALSE ]
       [] OTHER -> same("MethodNotAllowed")

\* ------------------------------------------------------------ tools/call
\* args.k of a defined arguments object (undefined when the property is absent).
Prop(args, k) == IF k \in DOMAIN args.props THEN args.props[k] ELSE Undefined

\* data?.Message
MessageOf(data) ==
  IF \E i \in 1..Len(data) : data[i][1] = "Message"
  THEN data[CHOOSE i \in 1..Len(data) : data[i][1] = "Message"][2]
  ELSE Undefined

\* JSON.stringify(data, null, 2) of a flat object of strings.
RECURSIVE Members(_)
Members(data) ==
  IF data = <<>> THEN ""
  ELSE "\n  \"" \o Head(data)[1] \o "\": \"" \o Head(data)[2] \o "\""
       \o (IF Len(data) > 1 THEN "," ELSE "\n") \o Members(Tail(data))
JSONstringify(data) == "{" \o Members(data) \o "}"

\* axios.get resolves for a 2xx response and rejects with an AxiosError
\* otherwise (another status, or no response).
Resolves(resp) == resp.response /\ resp.status \in 200..299
isAxiosError(resp) == ~Resolves(resp)

\* What the handler hands back: a returned result, or a thrown error.
NoResult ==
  [ thrown |-> FALSE, error |-> "none", isError |-> FALSE, text |-> "",
    gets |-> 0, url |-> "", accountKey |-> Undefined ]
Throw(error) == [ NoResult EXCEPT !.thrown = TRUE, !.error = error ]

\* makeRequest(url, params): one axios.get with the AccountKey header.
makeRequest_NoCatch(url, ltaApiKey, resp) ==
  LET sent == [ NoResult EXCEPT !.gets = 1, !.url = url, !.accountKey = ltaApiKey ]
  IN IF Resolves(resp)
     THEN [ sent EXCEPT !.text = JSONstringify(resp.data) ]
     ELSE [ sent EXCEPT !.thrown = TRUE, !.error = "AxiosError" ]
makeRequest_Retry(url, ltaApiKey, resp) ==
  LET sent == [ NoResult EXCEPT !.gets = IF Resolves(resp) THEN 1 ELSE 2,
                               !.url = url, !.accountKey = ltaApiKey ]
  IN IF Resolves(resp)
     THEN [ sent EXCEPT !.text = JSONstringify(resp.data) ]
     ELSE [ sent EXCEPT
              !.isError = TRUE,
              !.text = "LTA API error: " \o
                       (IF resp.response /\ MessageOf(resp.data) # Undefined
                        THEN MessageOf(resp.data) ELSE resp.message) ]
makeRequest(url, ltaApiKey, resp) ==
  LET sent == [ NoResult EXCEPT !.gets = 1, !.url = url, !.accountKey = ltaApiKey ]
  IN IF Resolves(resp)
     THEN [ sent EXCEPT !.text = JSONstringify(resp.data) ]
     ELSE IF isAxiosError(resp)
     THEN [ sent EXCEPT
              !.isError = TRUE,
              !.text = "LTA API error: " \o
                       (IF resp.response /\ MessageOf(resp.data) # Undefined
                        THEN MessageOf(resp.data) ELSE resp.message) ]
     ELSE [ sent EXCEPT !.thrown = TRUE, !.error = "Error" ]

\* The upstream path of each case of the switch.
UrlOf(name) ==
  CASE name = "bus_arrival" -> "v3/BusArrival"
    [] name = "station_crowding" -> "PCDRealTime"
    [] name = "train_alerts" -> "TrainServiceAlerts"
    [] name = "carpark_availability" -> "CarParkAvailabilityv2"
    [] name = "travel_times" -> "EstTravelTimes"
    [] name = "traffic_incidents" -> "TrafficIncidents"
    [] name = "station_crowd_forecast" -> "PCDForecast"

\* The cases that destructure args: `const { trainLine } = args` throws a
\* TypeError when args is undefined, before makeRequest is called.
Destructures(name) ==
  name \in {"bus_arrival", "station_crowding", "station_crowd_forecast"}

\* server.setRequestHandler(CallToolRequestSchema, ...) of registerTools,
\* closed over the ltaApiKey registerTools was called with.
CallToolRequest_FallThrough(name, args, ltaApiKey, resp) ==
  IF Destructures(name) /\ ~args.defined THEN Throw("TypeError")
  ELSE makeRequest(IF name \in Tools THEN UrlOf(name) ELSE "", ltaApiKey, resp)
CallToolRequest(name, args, ltaApiKey, resp) ==
  IF name \notin Tools THEN Throw("Error: Unknown tool")
  ELSE IF Destructures(name) /\ ~args.defined THEN Throw("TypeError")
  ELSE makeRequest(UrlOf(name), ltaApiKey, resp)

\* The CallTool handler of the stdio createServer: the same cases, each
\* with the try/catch inline; an unknown name throws McpError(MethodNotFound).
CallToolRequestStdio(name, args, ltaApiKey, resp) ==
  IF name \notin Tools THEN Throw("McpError: Unknown tool")
  ELSE IF Destructures(name) /\ ~args.defined THEN Throw("TypeError")
  ELSE makeRequest(UrlOf(name), ltaApiKey, resp)

\* ------------------------------------------------------------ state
NoOp ==
  [ op |-> "none", method |-> "none", hdr |-> NoSessionId, q |-> Undefined,
    body |-> "none", key |-> "", status |-> 0, error |-> "none",
    routed |-> 0, created |-> FALSE, wasClosed |-> FALSE, sid |-> NoSessionId,
    tool |-> "none", args |-> NoArguments, resp |-> NoResponse,
    result |-> NoResult, importData |-> EmptyMap, fsOk |-> TRUE,
    source |-> "none", remote |-> "none", stored |-> NoDocument,
    loaded |-> EmptyMap, leftOpen |-> {} ]

Init ==
  /\ startTime = 1
  /\ program \in {"http", "stdio"}
  /\ LTA_API_KEY \in EnvValues
  /\ analytics = InitAnalytics
  /\ transports = EmptyMap
  /\ channels = <<>>
  /\ servers = 0
  /\ upstream = {}
  /\ stdio = [state |-> "none", handlers |-> 0]
  /\ file = NoSnapshot
  /\ firebase = [enabled |-> FALSE, pending |-> <<>>, doc |-> NoSnapshot]
  /\ last = NoOp

\* ------------------------------------------------------------ app.all('/mcp')
Request(method, hdr, q, body, key) ==
  [ NoOp EXCEPT !.op = "mcp", !.method = method, !.hdr = hdr, !.q = q,
                !.body = body, !.key = key ]

\* app.listen is the last call of startServer: requests are handled once
\* the process is past its `await loadAnalytics()`.
listening_BeforeLoad(p) == p \in {"http", "loading"}
listening(p) == p = "http"

Tracked(method, endpoint, ip, ua, hour) ==
  /\ listening(program)
  /\ analytics.totalRequests < MaxRequests
  /\ analytics' = trackRequest(analytics, method, endpoint, ip, ua, hour)

\* if (!ltaApiKey) { res.status(500)...; return; }
McpNoKey(method, hdr, q, body, ip, ua, hour) ==
  LET ltaApiKey == getApiKey(q) IN
  /\ Tracked(method, "/mcp", ip, ua, hour)
  /\ missingApiKey(ltaApiKey)
  /\ last' = [ Request(method, hdr, q, body, ltaApiKey) EXCEPT
                 !.error = "ConfigurationError",
                 !.status = StatusOf("ConfigurationError") ]
  /\ UNCHANGED <<startTime, program, LTA_API_KEY, file, firebase, transports, channels, servers, upstream, stdio>>

\* if (sessionId && transports.has(sessionId)) transport = transports.get(sessionId)
\* A tools/call the transport accepts reaches the CallTool handler that
\* registerTools set on the session's Server when the session was created.
McpExisting(method, hdr, q, body, ip, ua, hour, inv) ==
  LET ltaApiKey == getApiKey(q) IN
  /\ Tracked(method, "/mcp", ip, ua, hour)
  /\ ~missingApiKey(ltaApiKey)
  /\ hasSession(transports, hdr)
  /\ LET t == getTransport(transports, hdr)
         r == handleRequest(channels, transports, t, method, hdr, body, NoSessionId)
         c == IF r.call
              THEN CallToolRequest(inv.name, inv.args, channels[t].ltaApiKey, inv.resp)
              ELSE NoResult
     IN /\ channels' = r.channels
        /\ transports' = r.transports
        /\ upstream' = IF c.gets > 0 THEN upstream \cup {c.accountKey} ELSE upstream
        /\ last' = [ Request(method, hdr, q, body, ltaApiKey) EXCEPT
                       !.error = r.error, !.status = StatusOf(r.error),
                       !.routed = t, !.wasClosed = channels[t].closed,
                       !.sid = r.sid,
                       !.tool = IF r.call THEN inv.name ELSE "none",
                       !.args = IF r.call THEN inv.args ELSE NoArguments,
                       !.resp = IF c.gets > 0 THEN inv.resp ELSE NoResponse,
                       !.result = c ]
  /\ UNCHANGED <<startTime, program, LTA_API_KEY, file, firebase, servers, stdio>>

\* A tools/call on a stored session, up to the `await axios.get` of
\* makeRequest: the request is counted and routed, the GET is sent, and the
\* handler is suspended until the LTA API answers.
McpCallBegin(hdr, q, ip, ua, hour, inv) ==
  LET ltaApiKey == getApiKey(q) IN
  /\ Tracked("POST", "/mcp", ip, ua, hour)
  /\ ~missingApiKey(ltaApiKey)
  /\ hasSession(transports, hdr)
  /\ LET t == getTransport(transports, hdr)
         r == handleRequest(channels, transports, t, "POST", hdr, "tools/call", NoSessionId)
         c == CallToolRequest(inv.name, inv.args, channels[t].ltaApiKey, inv.resp)
     IN /\ r.call /\ c.gets > 0
        /\ channels[t].inflight < MaxToolCalls
        /\ channels' = [r.channels EXCEPT ![t].inflight = @ + 1]
        /\ transports' = r.transports
        /\ upstream' = upstream \cup {c.accountKey}
        /\ last' = [ Request("POST", hdr, q, "tools/call", ltaApiKey) EXCEPT
                       !.op = "mcp-await", !.routed = t,
                       !.wasClosed = channels[t].closed,
                       !.tool = inv.name, !.args = inv.args ]
  /\ UNCHANGED <<startTime, program, LTA_API_KEY, file, firebase, servers, stdio>>

\* The LTA API answers a suspended invocation on channel t: makeRequest
\* returns and the Server sends the result on the transport, which has a
\* connection for it only while it is open.
McpCallEnd(t, inv) ==
  /\ program = "http"
  /\ t \in 1..Len(channels)
  /\ channels[t].inflight > 0
  /\ channels' = [channels EXCEPT ![t].inflight = @ - 1]
  /\ last' = [ NoOp EXCEPT
                 !.op = "mcp-result", !.routed = t,
                 !.wasClosed = channels[t].closed,
                 !.tool = inv.name, !.args = inv.args, !.resp = inv.resp,
                 !.result = CallToolRequest(inv.name, inv.args, channels[t].ltaApiKey, inv.resp),
                 !.error = IF channels[t].closed THEN "NoConnection" ELSE "none" ]
  /\ UNCHANGED <<startTime, program, LTA_API_KEY, file, firebase, analytics, transports, servers, upstream, stdio>>

\* else if (req.method === 'GET' || req.method === 'DELETE') res.status(400)
McpNoSession(method, hdr, q, body, ip, ua, hour) ==
  LET ltaApiKey == getApiKey(q) IN
  /\ Tracked(method, "/mcp", ip, ua, hour)
  /\ ~missingApiKey(ltaApiKey)
  /\ ~hasSession(transports, hdr)
  /\ requiresSession(method)
  /\ last' = [ Request(method, hdr, q, body, ltaApiKey) EXCEPT
                 !.error = "NoActiveSession",
                 !.status = StatusOf("NoActiveSession") ]
  /\ UNCHANGED <<startTime, program, LTA_API_KEY, file, firebase, transports, channels, servers, upstream, stdio>>

\* else { new Server; registerTools; new transport; onclose; connect }
\* followed by transport.handleRequest
McpCreate(method, hdr, q, body, ip, ua, hour, id) ==
  LET ltaApiKey == getApiKey(q) IN
  /\ Tracked(method, "/mcp", ip, ua, hour)
  /\ ~missingApiKey(ltaApiKey)
  /\ ~hasSession(transports, hdr)
  /\ ~requiresSession(method)
  /\ Len(channels) < MaxChannels
  /\ LET t == Len(channels) + 1
         ch == Append(channels, NewChannel(hdr, ltaApiKey))
         r == handleRequest(ch, transports, t, method, hdr, body, id)
     IN /\ servers' = servers + 1
        /\ channels' = r.channels
        /\ transports' = r.transports
        /\ upstream' = IF r.call THEN upstream \cup {ltaApiKey} ELSE upstream
        /\ last' = [ Request(method, hdr, q, body, ltaApiKey) EXCEPT
                       !.error = r.error, !.status = StatusOf(r.error),
                       !.routed = t, !.created = TRUE, !.sid = r.sid ]
  /\ UNCHANGED <<startTime, program, LTA_API_KEY, file, firebase, stdio>>

\* The transport closes without a DELETE (transport.close() from the
\* server side): its onclose handler runs.
TransportClose(t) ==
  /\ program = "http"
  /\ t \in 1..Len(channels)
  /\ LET c == closeTransport(channels, transports, t)
     IN /\ channels' = c.channels
        /\ transports' = c.transports
        /\ last' = [ NoOp EXCEPT !.op = "close", !.routed = t,
                                 !.wasClosed = channels[t].closed,
                                 !.error = c.error ]
  /\ UNCHANGED <<startTime, program, LTA_API_KEY, file, firebase, analytics, servers, upstream, stdio>>

\* ------------------------------------------------------------ other routes
Route(op, method, status) ==
  [ NoOp EXCEPT !.op = op, !.method = method, !.status = status ]

\* app.get('/')
Root(ip, ua, hour) ==
  /\ Tracked("GET", "/", ip, ua, hour)
  /\ last' = Route("/", "GET", 200)
  /\ UNCHANGED <<startTime, program, LTA_API_KEY, file, firebase, transports, channels, servers, upstream, stdio>>

\* app.get('/health')
Health(ip, ua, hour) ==
  /\ Tracked("GET", "/health", ip, ua, hour)
  /\ last' = Route("/health", "GET", 200)
  /\ UNCHANGED <<startTime, program, LTA_API_KEY, file, firebase, transports, channels, servers, upstream, stdio>>

\* app.get('/analytics'): the analytics object as JSON.
Analytics ==
  /\ program = "http"
  /\ last' = Route("/analytics", "GET", 200)
  /\ UNCHANGED <<startTime, program, LTA_API_KEY, file, firebase, analytics, transports, channels, servers, upstream, stdio>>

\* app.get('/analytics/dashboard'): the dashboard HTML.
AnalyticsDashboard ==
  /\ program = "http"
  /\ last' = Route("/analytics/dashboard", "GET", 200)
  /\ UNCHANGED <<startTime, program, LTA_API_KEY, file, firebase, analytics, transports, channels, servers, upstream, stdio>>

\* No counter above its cap.
WithinCaps(a) ==
  /\ a.totalRequests \in -MaxRequests..MaxRequests
  /\ a.totalToolCalls \in -MaxToolCalls..MaxToolCalls
  /\ \A k \in DOMAIN a.toolCalls : a.toolCalls[k] \in -MaxToolCalls..MaxToolCalls
  /\ \A k \in DOMAIN a.requestsByMethod : a.requestsByMethod[k] \in -MaxRequests..MaxRequests

\* app.post('/analytics/import'): merge, saveAnalytics, answer 200.
AnalyticsImport(importData, fsOk) ==
  /\ program = "http"
  /\ Len(firebase.pending) < MaxPendingWrites
  /\ LET a == importAnalytics(analytics, importData)
         sv == saveAnalytics(file, firebase, a, fsOk)
     IN /\ WithinCaps(a)
        /\ analytics' = a
        /\ file' = sv.file
        /\ firebase' = sv.firebase
        /\ last' = [ Route("/analytics/import", "POST",
                             IF sv.threw THEN 400 ELSE 200)
                       EXCEPT !.importData = importData, !.fsOk = fsOk ]
  /\ UNCHANGED <<startTime, program, LTA_API_KEY, transports, channels, servers, upstream, stdio>>

\* await analyticsRef.set(sanitizedData) settles: the document is stored,
\* or the write fails (logged, false returned) and the document stays.
FirebaseSet(ok) ==
  /\ firebase.pending # <<>>
  /\ firebase' = [ firebase EXCEPT !.pending = Tail(@),
                                   !.doc = IF ok THEN Head(firebase.pending) ELSE @ ]
  /\ last' = [ NoOp EXCEPT !.op = "firebaseSet",
                           !.error = IF ok THEN "none" ELSE "FirebaseError" ]
  /\ UNCHANGED <<startTime, program, LTA_API_KEY, file, analytics, transports, channels, servers, upstream, stdio>>

\* ------------------------------------------------------------ process life
\* setInterval(() => saveAnalytics(), SAVE_INTERVAL_MS): one tick. An
\* exception leaving the timer callback would end the process.
PeriodicSave(fsOk) ==
  /\ program = "http"
  /\ Len(firebase.pending) < MaxPendingWrites
  /\ LET sv == saveAnalytics(file, firebase, analytics, fsOk)
     IN /\ file' = sv.file
        /\ firebase' = sv.firebase
        /\ program' = IF sv.threw THEN "exited" ELSE program
  /\ last' = [ NoOp EXCEPT !.op = "saveInterval", !.fsOk = fsOk ]
  /\ UNCHANGED <<startTime, LTA_API_KEY, analytics, transports, channels, servers, upstream, stdio>>

\* transports.forEach((transport) => transport.close()): the entries of
\* the map are visited in insertion order, here `order`; an entry an
\* onclose handler deleted before its turn is not visited.
RECURSIVE closeAll(_, _, _, _)
closeAll(ch, m, order, i) ==
  IF i > Len(order) THEN [ channels |-> ch, transports |-> m ]
  ELSE IF order[i] \in DOMAIN m
  THEN LET c == closeTransport(ch, m, m[order[i]])
       IN closeAll(c.channels, c.transports, order, i + 1)
  ELSE closeAll(ch, m, order, i + 1)

\* The orders in which a Map may hold the session ids.
Orders == { o \in [1..NumIds -> SessionIds] : \A i, j \in 1..NumIds : o[i] = o[j] => i = j }

\* shutdown (SIGINT, SIGTERM), one synchronous run: clearInterval,
\* saveAnalytics, every transport of the map closed, process.exit(0). The
\* process exits without waiting for the writes to Firebase it started:
\* the first n of them reach the database, the others are lost with the
\* process, whose memory is gone.
Shutdown(fsOk, n, order) ==
  /\ program = "http"
  /\ LET sv == saveAnalytics(file, firebase, analytics, fsOk)
         cl == closeAll(channels, transports, order, 1)
     IN /\ n <= Len(sv.firebase.pending)
        /\ file' = sv.file
        /\ firebase' = [ sv.firebase EXCEPT
                           !.pending = <<>>,
                           !.doc = IF n = 0 THEN @ ELSE sv.firebase.pending[n] ]
        /\ last' = [ NoOp EXCEPT
                       !.op = "shutdown", !.fsOk = fsOk,
                       !.leftOpen = { t \in { transports[id] : id \in DOMAIN transports } :
                                        ~cl.channels[t].closed } ]
  /\ program' = "exited"
  /\ analytics' = InitAnalytics
  /\ transports' = EmptyMap
  /\ channels' = <<>>
  /\ servers' = 0
  /\ UNCHANGED <<startTime, LTA_API_KEY, upstream, stdio>>

\* initializeFirebase: enabled when the credentials file exists, parses
\* and the SDK initialises, else (caught) local storage only.
initializeFirebase(fb, credentialsOk) == [ fb EXCEPT !.enabled = credentialsOk ]

\* A new process: the analytics object of module load, then startServer
\* up to its `await loadAnalytics()`: initializeFirebase is done, the load
\* is under way, app.listen has not been called.
ProcessStart(credentialsOk) ==
  /\ program = "exited"
  /\ startTime < MaxStarts
  /\ startTime' = startTime + 1
  /\ program' = "loading"
  /\ firebase' = initializeFirebase(firebase, credentialsOk)
  /\ analytics' = [ InitAnalytics EXCEPT !.serverStartTime = startTime' ]
  /\ UNCHANGED <<LTA_API_KEY, file, transports, channels, servers, upstream, stdio, last>>

\* startServer from the end of loadAnalytics: the loaded snapshot replaces
\* the analytics object, then the timer is set and app.listen is called.
StartServer(remoteOk, localOk) ==
  /\ program = "loading"
  /\ program' = "http"
  /\ LET ld == loadAnalytics(analytics, Parsed(loadFromFirebase(firebase, remoteOk)),
                             Parsed(file), localOk, startTime)
     IN /\ analytics' = fromJS(ld.analytics)
        /\ last' = [ NoOp EXCEPT
                       !.op = "startServer", !.source = ld.source,
                       !.loaded = ld.analytics, !.fsOk = localOk,
                       !.remote = IF ~firebase.enabled THEN "disabled"
                                  ELSE IF ~remoteOk THEN "unreachable"
                                  ELSE IF ~firebase.doc.exists THEN "empty"
                                  ELSE "returned" ]
  /\ UNCHANGED <<startTime, LTA_API_KEY, file, firebase, transports, channels, servers, upstream, stdio>>

\* loadAnalytics of a starting process on a document found in a store
\* (in Firebase, or else in the local file); what it leaves in `analytics`
\* is recorded.
LoadStored(stored, remote) ==
  /\ program = "exited"
  /\ LET fresh == [ InitAnalytics EXCEPT !.serverStartTime = startTime + 1 ]
         ld == loadAnalytics(fresh, IF remote THEN stored ELSE NoDocument,
                             IF remote THEN NoDocument ELSE stored, TRUE,
                             startTime + 1)
     IN last' = [ NoOp EXCEPT !.op = "loadAnalytics", !.source = ld.source,
                              !.stored = stored, !.loaded = ld.analytics ]
  /\ UNCHANGED <<startTime, program, LTA_API_KEY, file, firebase, analytics, transports, channels, servers, upstream, stdio>>

\* ------------------------------------------------------------ stdio entry
\* createServer(): throws before `new Server` when LTA_API_KEY is falsy,
\* else registers the ListTools and CallTool handlers.
createServer ==
  /\ program = "stdio"
  /\ stdio.state = "none"
  /\ stdio' = IF ~Truthy(LTA_API_KEY)
              THEN [state |-> "threw", handlers |-> 0]
              ELSE [state |-> "ready", handlers |-> 2]
  /\ last' = [ NoOp EXCEPT !.op = "createServer" ]
  /\ UNCHANGED <<startTime, program, LTA_API_KEY, file, firebase, analytics, transports, channels, servers, upstream>>

\* A tools/call on the stdio server, handled with the ltaApiKey
\* createServer read from the environment.
StdioCallTool(inv) ==
  /\ stdio.state = "ready"
  /\ LET c == CallToolRequestStdio(inv.name, inv.args, LTA_API_KEY, inv.resp)
     IN /\ upstream' = IF c.gets > 0 THEN upstream \cup {c.accountKey} ELSE upstream
        /\ last' = [ NoOp EXCEPT !.op = "stdioCall", !.key = LTA_API_KEY,
                                 !.tool = inv.name, !.args = inv.args,
                                 !.resp = IF c.gets > 0 THEN inv.resp ELSE NoResponse,
                                 !.result = c ]
  /\ UNCHANGED <<startTime, program, LTA_API_KEY, file, firebase, analytics, transports, channels, servers, stdio>>

\* ------------------------------------------------------------ specification
Inputs ==
  { <<m, h, q, b>> \in Methods \X HeaderValues \X QueryValues \X (Bodies \cup {"none"}) :
      (m = "POST") <=> (b \in Bodies) }

\* sessionIdGenerator: () => crypto.randomUUID(), called for an initialize
\* request only. Any id may come out, one issued before included.
Generated(body) == IF body = "initialize" THEN SessionIds ELSE {NoSessionId}

\* The ids that collide with nothing the process holds: not issued to a
\* transport, not captured from a creating request's header, not the
\* header of the request at hand.
Unused(hdr) ==
  SessionIds \ ({hdr} \cup { channels[t].sessionId : t \in 1..Len(channels) }
                      \cup { channels[t].reqSessionId : t \in 1..Len(channels) })
GeneratedUnique(hdr, body) ==
  IF body = "initialize" THEN Unused(hdr) ELSE {NoSessionId}

\* The invocation a request body carries: one of `set` for a tools/call.
InvocationsOf(body, set) == IF body = "tools/call" THEN set ELSE {NoInvocation}

Next ==
  \/ \E i \in Inputs, ip \in ClientIps, ua \in UserAgents, hour \in Hours :
       McpNoKey(i[1], i[2], i[3], i[4], ip, ua, hour)
  \/ \E i \in Inputs, ip \in ClientIps, ua \in UserAgents, hour \in Hours :
       \E inv \in InvocationsOf(i[4], ProbeInvocations) :
         McpExisting(i[1], i[2], i[3], i[4], ip, ua, hour, inv)
  \/ \E i \in Inputs, ip \in ClientIps, ua \in UserAgents, hour \in Hours :
       McpNoSession(i[1], i[2], i[3], i[4], ip, ua, hour)
  \/ \E i \in Inputs, ip \in ClientIps, ua \in UserAgents, hour \in Hours :
       \E id \in Generated(i[4]) :
         McpCreate(i[1], i[2], i[3], i[4], ip, ua, hour, id)
  \/ \E t \in 1..MaxChannels : TransportClose(t)
  \/ createServer
  \/ \E inv \in ProbeInvocations : StdioCallTool(inv)

\* Every behaviour of the program; randomUUID may repeat an id.
Spec == Init /\ [][Next]_vars

NextUnique ==
  \/ \E i \in Inputs, ip \in ClientIps, ua \in UserAgents, hour \in Hours :
       McpNoKey(i[1], i[2], i[3], i[4], ip, ua, hour)
  \/ \E i \in Inputs, ip \in ClientIps, ua \in UserAgents, hour \in Hours :
       \E inv \in InvocationsOf(i[4], ProbeInvocations) :
         McpExisting(i[1], i[2], i[3], i[4], ip, ua, hour, inv)
  \/ \E i \in Inputs, ip \in ClientIps, ua \in UserAgents, hour \in Hours :
       McpNoSession(i[1], i[2], i[3], i[4], ip, ua, hour)
  \/ \E i \in Inputs, ip \in ClientIps, ua \in UserAgents, hour \in Hours :
       \E id \in GeneratedUnique(i[2], i[4]) :
         McpCreate(i[1], i[2], i[3], i[4], ip, ua, hour, id)
  \/ \E t \in 1..MaxChannels : TransportClose(t)
  \/ createServer
  \/ \E inv \in ProbeInvocations : StdioCallTool(inv)

\* The behaviours in which randomUUID never repeats an id nor hits one a
\* client has sent (ids are unique, as UUIDs are taken to be).
SpecUnique == Init /\ [][NextUnique]_vars

\* The requests that carry tool traffic: POSTs (initialize, tools/call)
\* with ?apiKey= absent or a user key, on a server that has a default key.
QueryValuesTools == {Undefined, "U"}
InputsTools ==
  { <<m, h, q, b>> \in {"POST"} \X HeaderValues \X QueryValuesTools \X Bodies : TRUE }

InitTools == Init /\ LTA_API_KEY = "D"

NextTools ==
  \/ \E i \in InputsTools, ip \in ClientIps, ua \in UserAgents, hour \in Hours :
       \E inv \in InvocationsOf(i[4], Invocations) :
         McpExisting(i[1], i[2], i[3], i[4], ip, ua, hour, inv)
  \/ \E i \in InputsTools, ip \in ClientIps, ua \in UserAgents, hour \in Hours :
       \E id \in GeneratedUnique(i[2], i[4]) :
         McpCreate(i[1], i[2], i[3], i[4], ip, ua, hour, id)
  \/ createServer
  \/ \E inv \in Invocations : StdioCallTool(inv)

\* Tool traffic: every tool invocation a client can send, over HTTP sessions
\* or stdio, and every answer the upstream can give.
SpecTools == InitTools /\ [][NextTools]_vars

\* The /mcp requests of the route traffic: a GET or a POST, with no ?apiKey
\* and no mcp-session-id.
InputsRoutes ==
  { <<"GET", NoSessionId, Undefined, "none">>,
    <<"POST", NoSessionId, Undefined, "initialize">>,
    <<"POST", NoSessionId, Undefined, "tools/call">> }

\* The HTTP server started with or without a default key, Firebase
\* enabled or not, nothing stored yet.
InitRoutes ==
  /\ startTime = 1
  /\ program = "http"
  /\ LTA_API_KEY \in {Undefined, "D"}
  /\ analytics = InitAnalytics
  /\ transports = EmptyMap
  /\ channels = <<>>
  /\ servers = 0
  /\ upstream = {}
  /\ stdio = [state |-> "none", handlers |-> 0]
  /\ file = NoSnapshot
  /\ firebase \in [enabled : BOOLEAN, pending : {<<>>}, doc : {NoSnapshot}]
  /\ last = NoOp

NextRoutes ==
  \/ \E ip \in ClientIps, ua \in UserAgents, hour \in Hours : Root(ip, ua, hour)
  \/ \E ip \in ClientIps, ua \in UserAgents, hour \in Hours : Health(ip, ua, hour)
  \/ Analytics
  \/ AnalyticsDashboard
  \/ \E importData \in ImportBodies, fsOk \in BOOLEAN : AnalyticsImport(importData, fsOk)
  \/ \E ok \in BOOLEAN : FirebaseSet(ok)
  \/ \E i \in InputsRoutes, ip \in ClientIps, ua \in UserAgents, hour \in Hours :
       McpNoKey(i[1], i[2], i[3], i[4], ip, ua, hour)
  \/ \E i \in InputsRoutes, ip \in ClientIps, ua \in UserAgents, hour \in Hours :
       McpNoSession(i[1], i[2], i[3], i[4], ip, ua, hour)
  \/ \E i \in InputsRoutes, ip \in ClientIps, ua \in UserAgents, hour \in Hours :
       \E id \in GeneratedUnique(i[2], i[4]) :
         McpCreate(i[1], i[2], i[3], i[4], ip, ua, hour, id)

\* Route traffic: every route of the HTTP server, imports and their saves.
SpecRoutes == InitRoutes /\ [][NextRoutes]_vars

InitImport == InitRoutes /\ LTA_API_KEY = "D"

NextPersist ==
  \/ \E ip \in ClientIps, ua \in UserAgents, hour \in Hours : Root(ip, ua, hour)
  \/ \E fsOk \in BOOLEAN : PeriodicSave(fsOk)
  \/ \E ok \in BOOLEAN : FirebaseSet(ok)
  \/ \E fsOk \in BOOLEAN, n \in 0..(MaxPendingWrites + 1), order \in Orders :
       Shutdown(fsOk, n, order)
  \/ \E credentialsOk \in BOOLEAN : ProcessStart(credentialsOk)
  \/ \E remoteOk \in BOOLEAN, localOk \in BOOLEAN : StartServer(remoteOk, localOk)

\* Process lives: requests, timer saves, shutdown and the next start.
SpecPersist == InitImport /\ [][NextPersist]_vars

\* The first contacts on /mcp: one that initializes a session and one that
\* does not.
InputsShutdown ==
  { <<"POST", NoSessionId, Undefined, "initialize">>,
    <<"POST", NoSessionId, Undefined, "tools/call">> }

NextShutdown ==
  \/ \E i \in InputsShutdown, ip \in ClientIps, ua \in UserAgents, hour \in Hours :
       \E id \in GeneratedUnique(i[2], i[4]) :
         McpCreate(i[1], i[2], i[3], i[4], ip, ua, hour, id)
  \/ \E fsOk \in BOOLEAN : PeriodicSave(fsOk)
  \/ \E ok \in BOOLEAN : FirebaseSet(ok)
  \/ \E fsOk \in BOOLEAN, n \in 0..(MaxPendingWrites + 1), order \in Orders :
       Shutdown(fsOk, n, order)

\* Sessions created and timer saves, until a termination signal.
SpecShutdown == InitImport /\ [][NextShutdown]_vars

\* The /mcp requests around a session's end: first contacts and the DELETE
\* of a session.
InputsInflight ==
  { <<"POST", NoSessionId, Undefined, "initialize">>,
    <<"POST", NoSessionId, Undefined, "tools/call">>,
    <<"DELETE", 1, Undefined, "none">>,
    <<"DELETE", 2, Undefined, "none">> }

NextInflight ==
  \/ \E i \in InputsInflight, ip \in ClientIps, ua \in UserAgents, hour \in Hours :
       \E id \in GeneratedUnique(i[2], i[4]) :
         McpCreate(i[1], i[2], i[3], i[4], ip, ua, hour, id)
  \/ \E i \in InputsInflight, ip \in ClientIps, ua \in UserAgents, hour \in Hours :
       McpExisting(i[1], i[2], i[3], i[4], ip, ua, hour, NoInvocation)
  \/ \E hdr \in SessionIds, ip \in ClientIps, ua \in UserAgents, hour \in Hours :
       \E inv \in ProbeInvocations : McpCallBegin(hdr, Undefined, ip, ua, hour, inv)
  \/ \E t \in 1..MaxChannels, inv \in ProbeInvocations : McpCallEnd(t, inv)

\* Tool invocations that wait for the LTA API while other requests of the
\* same session are handled.
SpecInflight == InitImport /\ [][NextInflight]_vars

\* The /mcp requests of the interleaved traffic: an initialize or a tool
\* invocation without a session id, and a tool invocation on session 1.
InputsInterleave ==
  { <<"POST", NoSessionId, Undefined, "initialize">>,
    <<"POST", NoSessionId, Undefined, "tools/call">>,
    <<"POST", 1, Undefined, "tools/call">> }

NextInterleave ==
  \/ \E i \in InputsInterleave, ip \in ClientIps, ua \in UserAgents, hour \in Hours :
       \E inv \in InvocationsOf(i[4], ProbeInvocations) :
         McpExisting(i[1], i[2], i[3], i[4], ip, ua, hour, inv)
  \/ \E i \in InputsInterleave, ip \in ClientIps, ua \in UserAgents, hour \in Hours :
       \E id \in GeneratedUnique(i[2], i[4]) :
         McpCreate(i[1], i[2], i[3], i[4], ip, ua, hour, id)
  \/ \E importData \in ImportBodies, fsOk \in BOOLEAN : AnalyticsImport(importData, fsOk)
  \/ \E fsOk \in BOOLEAN : PeriodicSave(fsOk)
  \/ \E ok \in BOOLEAN : FirebaseSet(ok)

\* /mcp requests and the tool invocations they carry, interleaved with
\* imports and timer saves. Each handler mutates the analytics object in
\* one synchronous stretch, so a step is one such stretch.
SpecInterleave == InitImport /\ [][NextInterleave]_vars

\* Documents a store may hold: the fields totalRequests, requestsByMethod
\* and recentToolCalls well typed, missing, null or of another type.
StoredDocuments ==
  { [ exists |-> TRUE, isNull |-> FALSE,
      fields |-> [ toJS(InitAnalytics) EXCEPT !.totalRequests = t,
                                              !.requestsByMethod = m,
                                              !.recentToolCalls = r ] ] :
      t \in {JSNumber(2), JSNumber(0), JSUndefined, JSNull, JSString("abc")},
      m \in {JSObject([k \in {"GET"} |-> 2]), JSUndefined, JSNull, JSString("x")},
      r \in {JSArray(<<>>), JSUndefined, JSNull, JSObject(EmptyMap)} }
  \cup { [ NoDocument EXCEPT !.exists = TRUE, !.isNull = TRUE ] }

InitRehydrate == InitImport /\ ~firebase.enabled

NextRehydrate ==
  \/ \E fsOk \in BOOLEAN, n \in {0}, order \in Orders : Shutdown(fsOk, n, order)
  \/ \E stored \in StoredDocuments, remote \in BOOLEAN : LoadStored(stored, remote)

\* Rehydration: loadAnalytics applied to stored documents.
SpecRehydrate == InitRehydrate /\ [][NextRehydrate]_vars

NextImport ==
  \/ \E ip \in ClientIps, ua \in UserAgents, hour \in Hours : Root(ip, ua, hour)
  \/ Analytics
  \/ \E importData \in ImportBodies, fsOk \in BOOLEAN : AnalyticsImport(importData, fsOk)
  \/ \E fsOk \in BOOLEAN : AnalyticsImport(analyticsJSON(analytics, firebase), fsOk)
  \/ \E ok \in BOOLEAN : FirebaseSet(ok)

\* Imports: deltas and the server's own GET /analytics body posted to
\* /analytics/import, between tracked requests.
SpecImport == InitImport /\ [][NextImport]_vars

\* Import bodies whose keys carry the characters Firebase forbids, and a
\* key that already has the escaped form.
SanitizeBodies ==
  { [ toolCalls |-> [k \in {"a.b$c#d"} |-> 1] ],
    [ toolCalls |-> [k \in {"a_dot_b"} |-> 1] ],
    [ requestsByMethod |-> [k \in {"[e]/f"} |-> 1] ] }

NextSanitize ==
  \/ \E ip \in ClientIps, ua \in UserAgents, hour \in Hours : Root(ip, ua, hour)
  \/ \E importData \in SanitizeBodies, fsOk \in BOOLEAN : AnalyticsImport(importData, fsOk)
  \/ \E ok \in BOOLEAN : FirebaseSet(ok)

\* Saves to the remote store of counters whose keys need escaping.
SpecSanitize == InitImport /\ [][NextSanitize]_vars

\* Import bodies the handler accepts that no aggregator produced: JSON
\* numbers below zero, next to a well-formed delta.
ArbitraryBodies ==
  { [ totalRequests |-> -1 ],
    [ toolCalls |-> [k \in {"bus_arrival"} |-> -1] ],
    [ totalRequests |-> 1, requestsByMethod |-> [k \in {"POST"} |-> 1] ] }

NextArbitrary ==
  \/ \E importData \in ArbitraryBodies, fsOk \in BOOLEAN : AnalyticsImport(importData, fsOk)
  \/ \E ok \in BOOLEAN : FirebaseSet(ok)

\* Imports of any JSON body.
SpecArbitrary == InitImport /\ [][NextArbitrary]_vars

\* trackToolCall applied to a tool call; the timestamp is the clock, which
\* advances with every call (the call's index).
RecordToolCall(toolName, ip, ua) ==
  /\ program = "http"
  /\ analytics.totalToolCalls < MaxRecorded
  /\ analytics' = trackToolCall(analytics, toolName, ip, ua, analytics.totalToolCalls + 1)
  /\ last' = [ NoOp EXCEPT !.op = "trackToolCall", !.tool = toolName ]
  /\ UNCHANGED <<startTime, program, LTA_API_KEY, file, firebase, transports, channels, servers, upstream, stdio>>

InitHistory == Init /\ program = "http" /\ LTA_API_KEY = "D"

NextHistory ==
  \E ip \in ClientIps, ua \in UserAgents : RecordToolCall("bus_arrival", ip, ua)

\* The rolling history: trackToolCall applied again and again to an
\* aggregator that starts empty.
SpecHistory == InitHistory /\ [][NextHistory]_vars

\* The termination signal arrives when the history is short, about to be
\* full, full, or has rolled.
RestartPoints ==
  {1, MAX_RECENT_CALLS - 1, MAX_RECENT_CALLS, MAX_RECENT_CALLS + 1}

NextRestart ==
  \/ \E ip \in ClientIps, ua \in UserAgents : RecordToolCall("bus_arrival", ip, ua)
  \/ \E fsOk \in BOOLEAN, n \in {0}, order \in Orders :
       analytics.totalToolCalls \in RestartPoints /\ Shutdown(fsOk, n, order)
  \/ \E credentialsOk \in {FALSE} : ProcessStart(credentialsOk)
  \/ \E remoteOk \in {FALSE}, localOk \in BOOLEAN : StartServer(remoteOk, localOk)

\* The rolling history over process lives: recorded calls, the shutdown
\* save, the next start's load of the local file, further calls.
SpecRestart == InitHistory /\ [][NextRestart]_vars

\* ------------------------------------------------------------ properties
IsMcp(l) == l.op = "mcp"
\* The transports constructed so far whose session was registered.
Registered(ch) == { t \in 1..Len(ch) : ch[t].sessionId # NoSessionId }

\* C1: once a registered session's transport has been closed (by a DELETE
\* naming its id, or by its own close), its id is no longer a key of the
\* live map under which that transport is stored.
C1_ClosedSessionRemoved ==
  \A t \in Registered(channels) :
    channels[t].closed =>
      ~(hasSession(transports, channels[t].sessionId)
        /\ transports[channels[t].sessionId] = t)

\* C2: no /mcp request carrying the id of a closed session is routed to
\* the closed session's transport.
C2_ClosedIdNeverRouted ==
  [][ (IsMcp(last') /\ last'.routed # 0 /\ ~last'.created)
        => ~channels[last'.routed].closed ]_vars

\* A state-establishing POST with no known session id.
Establishing(l, m) ==
  IsMcp(l) /\ l.method = "POST" /\ l.body = "initialize" /\ ~hasSession(m, l.hdr)

\* What C3 says of a step that creates a session: a fresh id is generated
\* and returned, exactly one entry (id -> the new transport) is added and
\* every pre-existing entry is unchanged.
CreatesOneSession ==
  LET id == last'.sid
      t == Len(channels) + 1
  IN /\ last'.error = "none" /\ last'.created /\ id \in SessionIds
     /\ Len(channels') = t /\ servers' = servers + 1
     /\ channels'[t].sessionId = id /\ ~channels'[t].closed
     /\ \A u \in 1..Len(channels) : channels'[u] = channels[u]
     /\ id \in DOMAIN transports' /\ transports'[id] = t
     /\ id \notin DOMAIN transports
     /\ DOMAIN transports' = DOMAIN transports \cup {id}
     /\ Cardinality(DOMAIN transports') = Cardinality(DOMAIN transports) + 1
     /\ \A k \in DOMAIN transports : transports'[k] = transports[k]

\* C3 as stated: every state-establishing POST /mcp without a known
\* session id creates exactly one new session under the returned id.
C3_Original ==
  [][ Establishing(last', transports) => CreatesOneSession ]_vars

\* C3 amended: the same, for the requests a credential resolves for; with
\* no credential the request creates nothing.
C3_CreateAddsOneEntry ==
  [][ Establishing(last', transports) =>
        IF Truthy(last'.key)
        THEN CreatesOneSession
        ELSE UNCHANGED <<transports, channels, servers>> ]_vars

C3_Witness ==
  /\ IsMcp(last) /\ last.created /\ last.sid \in SessionIds
  /\ Cardinality(DOMAIN transports) = 2
  /\ transports[last.sid] = last.routed

\* What C4 says of a request whose header is a key of the live map: it is
\* handled by the transport stored under that id, nothing is constructed,
\* and the lookup adds or re-points no entry (only a DELETE, which closes
\* the transport, may change the map at all).
RoutedToStored ==
  /\ last'.routed = transports[last'.hdr] /\ ~last'.created
  /\ Len(channels') = Len(channels) /\ servers' = servers
  /\ \A k \in DOMAIN transports' :
       k \in DOMAIN transports /\ transports'[k] = transports[k]
  /\ (last'.method # "DELETE" => transports' = transports)

\* C4 as stated: every /mcp request whose mcp-session-id is a key of the
\* live map is handled by the transport stored under it.
C4_Original ==
  [][ (IsMcp(last') /\ hasSession(transports, last'.hdr)) => RoutedToStored ]_vars

\* C4 amended: the same, for the requests a credential resolves for; with
\* no credential no transport handles the request.
C4_KnownIdRouted ==
  [][ (IsMcp(last') /\ hasSession(transports, last'.hdr)) =>
        IF Truthy(last'.key)
        THEN RoutedToStored
        ELSE last'.routed = 0 /\ UNCHANGED <<transports, channels, servers>> ]_vars

C4_Witness ==
  /\ IsMcp(last) /\ ~last.created /\ last.routed # 0
  /\ last.body = "tools/call" /\ last.error = "none"
  /\ Cardinality(DOMAIN transports) = 2

\* A GET or DELETE whose session id is absent from the live map (or absent).
Sessionless(l, m) ==
  IsMcp(l) /\ l.method \in {"GET", "DELETE"} /\ ~hasSession(m, l.hdr)

NothingTouched ==
  /\ last'.routed = 0 /\ ~last'.created
  /\ UNCHANGED <<transports, channels, servers, upstream>>

\* C5 as stated: a GET or DELETE with an unknown or missing session id is
\* answered 400 NoActiveSession and touches nothing.
C5_Original ==
  [][ Sessionless(last', transports) =>
        /\ last'.error = "NoActiveSession" /\ last'.status = 400
        /\ NothingTouched ]_vars

\* C5 amended: a GET or DELETE with an unknown or missing session id
\* touches nothing; it is answered 400 NoActiveSession when a credential
\* resolves and 500 (configuration error) when none does.
C5_NoActiveSession ==
  [][ Sessionless(last', transports) =>
        /\ NothingTouched
        /\ IF Truthy(last'.key)
           THEN last'.error = "NoActiveSession" /\ last'.status = 400
           ELSE last'.error = "ConfigurationError" /\ last'.status = 500 ]_vars

C5_Witness ==
  /\ IsMcp(last) /\ last.error = "NoActiveSession" /\ last.method = "DELETE"
  /\ last.hdr # NoSessionId /\ transports # EmptyMap

\* C6: a follow-up POST (a tool invocation) naming an id absent from the
\* live map fails with NoActiveSession and does no channel work: no Server
\* or transport is constructed and the live map is unchanged (stated for
\* the requests a credential resolves for).
C6_FollowUpUnknownId ==
  [][ (IsMcp(last') /\ last'.method = "POST" /\ last'.body = "tools/call"
       /\ last'.hdr # NoSessionId /\ last'.hdr \notin DOMAIN transports
       /\ Truthy(last'.key))
        => /\ last'.error = "NoActiveSession"
           /\ NothingTouched ]_vars

\* A close of a session that is already closed: a DELETE naming the id of
\* a closed registered transport, or a close of a closed transport.
SecondClose ==
  \/ /\ IsMcp(last') /\ last'.method = "DELETE"
     /\ \E t \in Registered(channels) :
          channels[t].sessionId = last'.hdr /\ channels[t].closed
  \/ /\ last'.op = "close"
     /\ channels[last'.routed].closed

\* C7 as stated: closing a session that is already closed leaves the live
\* map (and the channels) unchanged and is not answered with an error.
C7_Original ==
  [][ SecondClose =>
        /\ transports' = transports /\ channels' = channels
        /\ last'.error = "none" ]_vars

\* C7 amended: the same, the DELETE being one a credential resolves for;
\* with no credential the DELETE is answered 500 and changes nothing.
C7_SecondCloseNoOp ==
  [][ SecondClose =>
        /\ transports' = transports /\ channels' = channels
        /\ IF IsMcp(last') /\ ~Truthy(last'.key)
           THEN last'.error = "ConfigurationError"
           ELSE last'.error = "none" ]_vars

C7_Witness ==
  /\ IsMcp(last) /\ last.method = "DELETE" /\ last.wasClosed
  /\ last.error = "none" /\ last.routed # 0
  /\ Cardinality(DOMAIN transports) = 2

\* C8: registering a new session never replaces the entry of a live
\* transport: every open transport reachable under its id before a
\* session creation is reachable under it afterwards.
C8_NoOverwrite ==
  [][ (IsMcp(last') /\ last'.created /\ last'.sid # NoSessionId) =>
        \A k \in DOMAIN transports :
          ~channels[transports[k]].closed =>
            k \in DOMAIN transports' /\ transports'[k] = transports[k] ]_vars

\* C9: with neither ?apiKey nor LTA_API_KEY, /mcp answers 500 before any
\* lookup or construction, the stdio createServer throws before it
\* registers a handler, and no upstream call carries an empty credential.
C9_NoCredentialFailsFast ==
  [][ /\ (IsMcp(last') /\ ~Truthy(last'.q) /\ ~Truthy(LTA_API_KEY)) =>
            /\ last'.status = 500 /\ last'.error = "ConfigurationError"
            /\ NothingTouched
      /\ (last'.op = "createServer" /\ ~Truthy(LTA_API_KEY)) =>
            stdio'.state = "threw" /\ stdio'.handlers = 0
      /\ \A k \in upstream' : Truthy(k) ]_vars

C9_Witness ==
  /\ IsMcp(last) /\ last.status = 500 /\ ~Truthy(last.q)
  /\ hasSession(transports, last.hdr) /\ upstream # {}

\* C10: the resolved credential is the apiKey query parameter when that is
\* non-empty and the process-wide default otherwise, whatever the session
\* state, and never a third value.
C10_KeyResolution ==
  IsMcp(last) =>
    /\ (last.q \notin {Undefined, ""} => last.key = last.q)
    /\ (last.q \in {Undefined, ""} =>
          last.key = (IF LTA_API_KEY \in {Undefined, ""} THEN "" ELSE LTA_API_KEY))
    /\ last.key \in {last.q, LTA_API_KEY, ""}

C10_Witness ==
  /\ IsMcp(last) /\ last.q = "U" /\ LTA_API_KEY = "D" /\ last.key = "U"
  /\ transports # EmptyMap

\* ------------------------------------------------------------ tool invocations
\* The last operation handed a tools/call to a CallTool handler (over an
\* HTTP session or over stdio).
Invoked(l) == l.tool # "none"
\* The parameter each tool's inputSchema lists under `required`.
RequiredOf(name) ==
  CASE name = "bus_arrival" -> "busStopCode"
    [] name \in {"station_crowding", "station_crowd_forecast"} -> "trainLine"

\* C11: the AccountKey sent upstream for a tool invocation over HTTP is the
\* credential resolved for the request that carries the invocation.
C11_OwnRequestKey ==
  [][ (IsMcp(last') /\ Invoked(last') /\ last'.result.gets > 0)
        => last'.result.accountKey = last'.key ]_vars

\* C12: an invocation naming a tool that is not registered fails with an
\* error naming the unknown tool and makes no upstream GET, over HTTP and
\* over stdio.
C12_UnknownTool ==
  [][ (Invoked(last') /\ last'.tool \notin Tools) =>
        /\ last'.result.thrown
        /\ last'.result.error \in {"Error: Unknown tool", "McpError: Unknown tool"}
        /\ last'.result.gets = 0 /\ ~last'.result.isError
        /\ upstream' = upstream ]_vars

C12_Witness ==
  /\ IsMcp(last) /\ last.tool = "bus_routes" /\ last.result.thrown
  /\ last.status = 200 /\ upstream = {}

\* C13: an invocation of bus_arrival, station_crowding or
\* station_crowd_forecast that omits the tool's required parameter fails
\* before any upstream GET.
C13_RequiredParameter ==
  [][ (Invoked(last') /\ Destructures(last'.tool)
       /\ Prop(last'.args, RequiredOf(last'.tool)) = Undefined) =>
        /\ last'.result.thrown
        /\ last'.result.gets = 0 /\ upstream' = upstream ]_vars

\* C14: station_crowding and station_crowd_forecast invoked with a
\* trainLine outside the enumeration fail, make no upstream GET and leave
\* the toolCalls counters unchanged.
C14_TrainLineEnum ==
  [][ (Invoked(last') /\ last'.tool \in {"station_crowding", "station_crowd_forecast"}
       /\ Prop(last'.args, "trainLine") \notin TrainLines \cup {Undefined}) =>
        /\ last'.result.thrown
        /\ last'.result.gets = 0 /\ upstream' = upstream
        /\ analytics'.toolCalls = analytics.toolCalls
        /\ analytics'.totalToolCalls = analytics.totalToolCalls ]_vars

\* C15 as stated: every invocation of a registered tool issues exactly one
\* upstream GET.
C15_Original ==
  [][ (Invoked(last') /\ last'.tool \in Tools) => last'.result.gets = 1 ]_vars

\* C15 amended: an invocation of a registered tool issues exactly one
\* upstream GET, whatever the upstream answers, and its result is made from
\* that answer; the one exception is bus_arrival, station_crowding or
\* station_crowd_forecast invoked with no arguments object, which throws
\* before the GET and issues none.
C15_OneGetPerInvocation ==
  [][ (Invoked(last') /\ last'.tool \in Tools) =>
        IF Destructures(last'.tool) /\ ~last'.args.defined
        THEN last'.result.gets = 0 /\ last'.result.thrown /\ upstream' = upstream
        ELSE /\ last'.result.gets = 1
             /\ last'.resp \in Responses
             /\ last'.result.accountKey \in upstream'
             /\ last'.result.isError = ~Resolves(last'.resp)
             /\ (Resolves(last'.resp) =>
                   last'.result.text = JSONstringify(last'.resp.data)) ]_vars

C15_Witness ==
  /\ IsMcp(last) /\ last.tool = "bus_arrival" /\ last.args.defined
  /\ last.result.gets = 1 /\ last.result.isError
  /\ analytics.totalRequests = MaxRequests

\* C16: when the upstream answers with a non-2xx status the invocation
\* returns a result flagged isError whose text is "LTA API error: " and the
\* body's Message (the error's own message when the body has none); when
\* it answers 2xx the result carries the serialized body, not flagged.
C16_UpstreamAnswer ==
  [][ (Invoked(last') /\ last'.result.gets > 0 /\ last'.resp.response) =>
        /\ ~last'.result.thrown
        /\ IF last'.resp.status \in 200..299
           THEN /\ ~last'.result.isError
                /\ last'.result.text = JSONstringify(last'.resp.data)
                /\ (last'.resp.data = << <<"BusStopCode", "83139">> >> =>
                      last'.result.text = "{\n  \"BusStopCode\": \"83139\"\n}")
           ELSE /\ last'.result.isError
                /\ (last'.resp.status = 401 =>
                      last'.result.text = "LTA API error: Invalid AccountKey")
                /\ (last'.resp.status = 500 =>
                      last'.result.text =
                        "LTA API error: Request failed with status code 500") ]_vars

C16_Witness ==
  /\ last.op = "stdioCall" /\ last.tool = "station_crowding"
  /\ last.resp.status = 401 /\ last.result.isError
  /\ last.result.text = "LTA API error: Invalid AccountKey"

\* C17: when the upstream cannot be reached (no response at all) the
\* invocation returns no isError result: the error is thrown to the caller.
C17_UnreachableThrows ==
  [][ (Invoked(last') /\ last'.result.gets > 0 /\ ~last'.resp.response) =>
        last'.result.thrown /\ ~last'.result.isError ]_vars

\* C18: every invocation over HTTP whose name is a registered tool is
\* recorded once (totalToolCalls and toolCalls[name] grow by 1 and one
\* record is added to recentToolCalls); an unknown tool is not recorded.
C18_ToolCallRecorded ==
  [][ (IsMcp(last') /\ Invoked(last')) =>
        IF last'.tool \in Tools
        THEN /\ analytics'.totalToolCalls = analytics.totalToolCalls + 1
             /\ last'.tool \in DOMAIN analytics'.toolCalls
             /\ Len(analytics'.recentToolCalls) = Len(analytics.recentToolCalls) + 1
        ELSE /\ analytics'.totalToolCalls = analytics.totalToolCalls
             /\ analytics'.toolCalls = analytics.toolCalls
             /\ analytics'.recentToolCalls = analytics.recentToolCalls ]_vars

\* ------------------------------------------------------------ analytics
HttpRoutes ==
  { "/", "/health", "/analytics", "/analytics/dashboard", "/analytics/import" }
\* The last operation was an HTTP request handled by a route.
IsHttpRequest(l) == IsMcp(l) \/ l.op \in HttpRoutes
EndpointOf(l) == IF IsMcp(l) THEN "/mcp" ELSE l.op

\* C19: every HTTP request, on every route and whatever its outcome, adds
\* exactly 1 to totalRequests and to the counters of its method, endpoint,
\* origin address, client descriptor and hour bucket, and changes nothing
\* else of the aggregator.
C19_EveryRequestCounted ==
  [][ IsHttpRequest(last') =>
        \E ip \in ClientIps, ua \in UserAgents, hour \in Hours :
          analytics' = trackRequest(analytics, last'.method, EndpointOf(last'),
                                    ip, ua, hour) ]_vars

\* C20: after n tool calls recorded from an empty history, recentToolCalls
\* holds the min(n, MAX_RECENT_CALLS) most recent records, newest first (the
\* i-th entry is the (n - i + 1)-th call), so the calls older than the
\* newest MAX_RECENT_CALLS are absent.
C20_RollingHistory ==
  LET n == analytics.totalToolCalls
      h == analytics.recentToolCalls
  IN /\ Len(h) = IF n < MAX_RECENT_CALLS THEN n ELSE MAX_RECENT_CALLS
     /\ \A i \in 1..Len(h) : h[i].timestamp = n - i + 1
     /\ \A i \in 1..Len(h) : h[i].timestamp > n - MAX_RECENT_CALLS

C20_Witness ==
  /\ analytics.totalToolCalls = 102
  /\ Len(analytics.recentToolCalls) = 100
  /\ analytics.recentToolCalls[1].timestamp = 102
  /\ analytics.recentToolCalls[100].timestamp = 3

\* ------------------------------------------------------------ import
Scalars == {"totalRequests", "totalToolCalls"}

CounterMaps ==
  {"toolCalls", "requestsByMethod", "requestsByEndpoint", "clientsByIp",
   "clientsByUserAgent", "hourlyRequests"}

IsImport(l) == l.op = "/analytics/import"

\* The additive fold of a delta: each scalar it carries summed, each map it
\* carries merged key by key, a missing key counting as 0.
FoldDelta(a, d) ==
  [ f \in DOMAIN a |->
      IF f \in Scalars /\ Has(d, f) THEN a[f] + d[f]
      ELSE IF f \in CounterMaps /\ Has(d, f) THEN MergeCounts(a[f], d[f])
      ELSE a[f] ]

Doubled(m) == [ k \in DOMAIN m |-> 2 * m[k] ]

\* C21: an import folds every counter the delta supplies into the
\* aggregator additively: both scalars summed, and each of toolCalls,
\* requestsByMethod, requestsByEndpoint, clientsByIp, clientsByUserAgent
\* and hourlyRequests present in the delta merged key by key.
C21_FoldsEverySuppliedCounter ==
  [][ IsImport(last') => analytics' = FoldDelta(analytics, last'.importData) ]_vars

\* C22: an import leaves untouched every field the delta lacks, the keys
\* of a present map the delta does not mention, serverStartTime and the
\* rolling history.
C22_MergeFrame ==
  [][ IsImport(last') =>
        LET d == last'.importData IN
        /\ \A f \in DOMAIN analytics : ~Has(d, f) => analytics'[f] = analytics[f]
        /\ \A f \in CounterMaps :
             Has(d, f) =>
               \A k \in DOMAIN analytics[f] \ DOMAIN d[f] :
                 k \in DOMAIN analytics'[f] /\ analytics'[f][k] = analytics[f][k]
        /\ analytics'.serverStartTime = analytics.serverStartTime
        /\ analytics'.recentToolCalls = analytics.recentToolCalls ]_vars

C22_Witness ==
  /\ IsImport(last)
  /\ Has(last.importData, "requestsByMethod")
  /\ ~Has(last.importData, "totalToolCalls")
  /\ "GET" \notin DOMAIN last.importData.requestsByMethod
  /\ "GET" \in DOMAIN analytics.requestsByMethod
  /\ "POST" \in DOMAIN analytics.requestsByMethod
  /\ analytics.totalToolCalls = 1

\* C23: importing the GET /analytics body of an aggregator into a freshly
\* zeroed aggregator yields scalar counters and counter maps equal to the
\* original's.
C23_RoundTrip ==
  LET B == importAnalytics(InitAnalytics, analyticsJSON(analytics, firebase))
  IN \A f \in Scalars \cup CounterMaps : B[f] = analytics[f]

\* C24: the merge is additive and not idempotent: a second import of the
\* same delta adds each supplied counter a second time, and an import of
\* the aggregator's own snapshot doubles every counter.
C24_AdditiveNotIdempotent ==
  [][ IsImport(last') =>
        LET d == last'.importData IN
        /\ importAnalytics(analytics', d) = FoldDelta(FoldDelta(analytics, d), d)
        /\ d = analyticsJSON(analytics, firebase) =>
             /\ \A f \in Scalars : analytics'[f] = 2 * analytics[f]
             /\ \A f \in CounterMaps : analytics'[f] = Doubled(analytics[f]) ]_vars

\* ------------------------------------------------------------ interleaving
\* What one step contributes to a counter: 1 when it is an event of the
\* counter, and the amount an import supplies for the counter.
Imported(l, counter) ==
  IF IsImport(l) /\ Has(l.importData, counter) THEN l.importData[counter] ELSE 0
RequestEvents(l) == IF IsMcp(l) THEN 1 ELSE 0
ToolEvents(l) == IF IsMcp(l) /\ Invoked(l) /\ l.tool \in Tools THEN 1 ELSE 0

\* C25: whatever the interleaving of /mcp requests, tool invocations,
\* imports and timer saves, each counter ends at its initial value plus the
\* number of its events plus the amounts imported: every step adds to
\* totalRequests and totalToolCalls exactly its own contribution.
C25_NoIncrementLost ==
  [][ /\ analytics'.totalRequests =
           analytics.totalRequests + RequestEvents(last')
             + Imported(last', "totalRequests")
      /\ analytics'.totalToolCalls =
           analytics.totalToolCalls + ToolEvents(last')
             + Imported(last', "totalToolCalls") ]_vars

\* ------------------------------------------------------------ load
IsStart(l) == l.op = "startServer"

\* C26: loading uses the remote snapshot when the remote store returns
\* one; when it returns none (Firebase disabled, unreachable, or holding
\* no record) it uses the local file; when the file is absent or cannot
\* be read, the process starts from the all-zero snapshot whose
\* serverStartTime is the time the process started.
C26_LoadOrder ==
  [][ IsStart(last') =>
        IF last'.remote = "returned" THEN analytics' = firebase.doc.data
        ELSE IF last'.fsOk /\ file.exists THEN analytics' = file.data
        ELSE analytics' = [ InitAnalytics EXCEPT !.serverStartTime = startTime' ] ]_vars

C26_Witness ==
  /\ IsStart(last)
  /\ last.remote = "unreachable"
  /\ firebase.doc.exists
  /\ firebase.doc.data.totalRequests # file.data.totalRequests
  /\ last.source = "file"
  /\ analytics = file.data
  /\ analytics.totalRequests = 2
  /\ analytics.serverStartTime < startTime

\* Every scalar counter a number, every map an object, the history an array.
WellTyped(doc) ==
  \A f \in AnalyticsFields :
    doc[f].type = CASE f = "serverStartTime" -> "string"
                    [] f \in Scalars -> "number"
                    [] f = "recentToolCalls" -> "array"
                    [] OTHER -> "object"

\* C27: for every stored document, fields missing or of the wrong type
\* included, loadAnalytics completes without throwing and leaves every
\* scalar counter a number, every map a map and the history a sequence.
C27_UsableSnapshot ==
  last.op = "loadAnalytics" => WellTyped(last.loaded)

\* C28: the snapshot loaded at a start is the most recently written of the
\* copies that exist. Stated where the most recent copy is known: a start
\* that follows a shutdown whose local write succeeded finds in the file
\* the last snapshot the process wrote (the remote copy is that snapshot
\* or an older one), and loads its counters when the file can be read.
C28_MostRecentCopy ==
  [][ (IsStart(last') /\ last.op = "shutdown" /\ last.fsOk /\ last'.fsOk) =>
        /\ analytics'.totalRequests = file.data.totalRequests
        /\ analytics'.totalToolCalls = file.data.totalToolCalls
        /\ analytics'.serverStartTime = file.data.serverStartTime ]_vars

\* ------------------------------------------------------------ save
IsSave(l) == l.op = "saveInterval" \/ IsImport(l)

\* C29: a persistence failure never reaches the caller. saveAnalytics
\* returns normally whether the local write, the remote write or both
\* fail: the import that called it is answered 200 with its merge kept,
\* the timer tick leaves the process running. It does not wait for the
\* remote write, which is still pending when it returns; a remote write
\* that is rejected is dropped, the process and its state staying as
\* they are.
C29_SaveFailureContained ==
  [][ /\ IsImport(last') =>
           /\ last'.status = 200
           /\ analytics' = importAnalytics(analytics, last'.importData)
      /\ IsSave(last') =>
           /\ program' = "http"
           /\ firebase'.doc = firebase.doc
           /\ (firebase.enabled /\ last'.fsOk) =>
                 Len(firebase'.pending) = Len(firebase.pending) + 1
      /\ last'.op = "firebaseSet" =>
           /\ program' = "http" /\ analytics' = analytics /\ file' = file
           /\ last'.error # "none" => firebase'.doc = firebase.doc ]_vars

C29_Witness ==
  /\ IsImport(last) /\ ~last.fsOk /\ last.status = 200
  /\ Has(last.importData, "totalToolCalls")
  /\ analytics.totalToolCalls = 1
  /\ ~file.exists
  /\ firebase.enabled

\* C30: the two backends fail independently: when the local write fails
\* (the data directory cannot be created, or the file write throws) the
\* remote write is still attempted, and a failing save leaves the
\* in-memory snapshot as it is.
C30_IndependentBackends ==
  [][ /\ (IsSave(last') /\ ~last'.fsOk /\ firebase.enabled) =>
           Len(firebase'.pending) = Len(firebase.pending) + 1
      /\ (last'.op = "saveInterval" /\ ~last'.fsOk) => analytics' = analytics ]_vars

\* ------------------------------------------------------------ shutdown
IsShutdown(l) == l.op = "shutdown"

\* C31: on a termination signal no further session is accepted, every
\* channel in the live session map is closed, the persistence layer is
\* flushed once (the snapshot of the moment is in the local file and in
\* the remote store when the process has exited) and the process exits;
\* after the signal no timer save runs and no session is created.
C31_ShutdownSequence ==
  [][ /\ IsShutdown(last') =>
           /\ last'.leftOpen = {}
           /\ program' = "exited"
           /\ firebase'.pending = <<>>
           /\ last'.fsOk => file' = Snapshot(analytics)
           /\ (last'.fsOk /\ firebase.enabled) =>
                 firebase'.doc = Snapshot(sanitizedData(analytics))
      /\ program = "exited" =>
           /\ file' = file /\ firebase'.doc = firebase.doc
           /\ transports' = transports /\ channels' = channels ]_vars

\* ------------------------------------------------------------ key escaping
ForbiddenChars == {".", "$", "#", "[", "]", "/"}
HasForbidden(key) == \E i \in 1..Len(key) : SubSeq(key, i, i) \in ForbiddenChars
\* The documents handed to the remote store: the record and the writes
\* started and not yet settled.
RemoteDocuments ==
  { firebase.pending[i] : i \in 1..Len(firebase.pending) }
    \cup (IF firebase.doc.exists THEN {firebase.doc} ELSE {})
MemoryKeys == UNION { DOMAIN analytics[m] : m \in CounterMaps }

C33_EscapingReversible ==
  [][ ( /\ IsStart(last') /\ last'.source = "firebase"
        /\ file.exists
        /\ firebase.doc = Snapshot(sanitizedData(file.data)) )
      => \A m \in CounterMaps : analytics'[m] = file.data[m] ]_vars

\* ------------------------------------------------------------ in-flight calls
\* C34: a DELETE of a session handled while a tool invocation of that
\* session waits for its answer does not close the session: the channel
\* is open when the result is sent.
C34_DeleteAfterInFlight ==
  [][ /\ \A t \in 1..Len(channels) :
           (channels[t].inflight > 0 /\ ~channels[t].closed) => ~channels'[t].closed
      /\ last'.op = "mcp-result" => last'.error = "none" ]_vars

\* C35: every transport the /mcp handler created and that has not been
\* closed is an entry of the live session map, also after a first-contact
\* POST that does not complete an initialization.
C35_OpenTransportsRegistered ==
  \A t \in 1..Len(channels) :
    ~channels[t].closed => \E id \in DOMAIN transports : transports[id] = t

\* ------------------------------------------------------------ start order
\* C36: no request is handled or counted before loadAnalytics has
\* completed: the only step of a process that is still loading is the
\* completion of the load, and the object the load replaces holds no
\* count of this process.
C36_LoadBeforeListen ==
  [][ /\ program = "loading" => IsStart(last')
      /\ IsStart(last') =>
           analytics = [InitAnalytics EXCEPT !.serverStartTime = startTime] ]_vars
C36_Witness ==
  /\ IsStart(last) /\ last.source \in {"firebase", "file"}
  /\ analytics.totalRequests > 0
  /\ startTime > 1

\* ------------------------------------------------------------ counter sums
RECURSIVE SumOver(_, _)
SumOver(m, keys) ==
  IF keys = {} THEN 0
  ELSE LET k == CHOOSE x \in keys : TRUE IN m[k] + SumOver(m, keys \ {k})
SumOf(m) == SumOver(m, DOMAIN m)

\* C37: totalRequests equals the sum of each of the five request maps and
\* totalToolCalls equals the sum of toolCalls, in every state reached from
\* a fresh aggregator by requests, tool calls and imports.
C37_TotalsAreSums ==
  /\ \A m \in CounterMaps \ {"toolCalls"} : analytics.totalRequests = SumOf(analytics[m])
  /\ analytics.totalToolCalls = SumOf(analytics.toolCalls)

\* ------------------------------------------------------------ counter values
\* C38: every scalar counter and every value of a counter map is a
\* non-negative integer in every reachable state, whatever bodies are
\* imported.
C38_CountersNonNegative ==
  /\ \A f \in Scalars : analytics[f] \in Nat
  /\ \A m \in CounterMaps : \A k \in DOMAIN analytics[m] : analytics[m][k] \in Nat

====
